---- MODULE Spec2Model ----
(***************************************************************************)
(* optuna/integration/mlflow.py: MLflowCallback.                           *)
(*                                                                         *)
(* The callback is constructed once (__init__, guarded by the import-time  *)
(* availability flag) and then called as callback(study, trial) for every  *)
(* finished trial.  Each call issues a fixed sequence of calls to the      *)
(* process-wide mlflow client.  The model splits __call__ at those client  *)
(* calls, the only points where another worker's call can interleave and   *)
(* the only points where the client can raise.                             *)
(***************************************************************************)
EXTENDS Integers, Sequences, FiniteSets, TLC

\* ------------------------------------------------------------------------
\* Bounds of the model
\* ------------------------------------------------------------------------

\* n_trials of study.optimize: trial numbers are 0 .. NumTrials-1.
NumTrials == 3

\* Worker threads of study.optimize delivering finished trials.
Threads == {"w1", "w2"}

\* ------------------------------------------------------------------------
\* Python values
\* ------------------------------------------------------------------------

PyNone == [t |-> "NoneType", v |-> "None"]

PyStr(s) == [t |-> "str", v |-> s]

PyInt(n) == [t |-> "int", v |-> n]

PyFloat(s) == [t |-> "float", v |-> s]

PyEnum(cls, name) == [t |-> "enum", v |-> <<cls, name>>]

PyDatetime(y, mo, d, h, mi, s) == [t |-> "datetime", v |-> <<y, mo, d, h, mi, s>>]

PyUniform(low, high) == [t |-> "UniformDistribution", v |-> <<low, high>>]

\* float("nan")
NaN == PyFloat("nan")

Digit == <<"0", "1", "2", "3", "4", "5", "6", "7", "8", "9">>

RECURSIVE NatStr(_)
NatStr(n) == IF n < 10 THEN Digit[n + 1] ELSE NatStr(n \div 10) \o Digit[(n % 10) + 1]

IntStr(n) == IF n < 0 THEN "-" \o NatStr(0 - n) ELSE NatStr(n)

Pad2(n) == IF n < 10 THEN "0" \o NatStr(n) ELSE NatStr(n)

\* str(x) for the values the callback renders as text.
Str(x) ==
    CASE x.t = "NoneType" -> "None"
      [] x.t = "str" -> x.v
      [] x.t = "int" -> IntStr(x.v)
      [] x.t = "float" -> x.v
      [] x.t = "enum" -> x.v[1] \o "." \o x.v[2]
      [] x.t = "datetime" ->
            NatStr(x.v[1]) \o "-" \o Pad2(x.v[2]) \o "-" \o Pad2(x.v[3]) \o " "
                \o Pad2(x.v[4]) \o ":" \o Pad2(x.v[5]) \o ":" \o Pad2(x.v[6])
      [] x.t = "UniformDistribution" ->
            "UniformDistribution(low=" \o IntStr(x.v[1]) \o ", high=" \o IntStr(x.v[2]) \o ")"

\* A dict is a function from its keys (strings) to its values.
EmptyDict == [k \in {} |-> PyNone]

\* Mutant of DictUpdate: entries already present are kept (first write wins).
DictUpdateKeep(d, e) ==
    [k \in (DOMAIN d) \cup (DOMAIN e) |-> IF k \in DOMAIN d THEN d[k] ELSE e[k]]

\* d.update(e): the entries of e are written into d, later writes win.
DictUpdate(d, e) ==
    [k \in (DOMAIN d) \cup (DOMAIN e) |-> IF k \in DOMAIN e THEN e[k] ELSE d[k]]

\* d[key] = value
DictSet(d, key, value) == DictUpdate(d, [k \in {key} |-> value])

IsNone(x) == x.t = "NoneType"

\* ------------------------------------------------------------------------
\* Inputs: constructor arguments, studies and frozen trials
\* ------------------------------------------------------------------------

TrackingUris == {PyNone, PyStr("file:/a"), PyStr("file:/b")}

Experiments == {PyNone, PyStr("X")}

\* metric_name as passed in the class docstring's example; PyNone: not passed.
MetricNames == {PyNone, PyStr("my metric score")}

Studies ==
    { [study_name |-> "my_study", direction |-> PyEnum("StudyDirection", "MINIMIZE")],
      [study_name |-> "other_study", direction |-> PyEnum("StudyDirection", "MAXIMIZE")] }

\* value, state and completion time of a finished trial.
Outcomes ==
    { [value |-> PyNone, state |-> PyEnum("TrialState", "FAIL"),
       datetime_complete |-> PyNone],
      [value |-> PyFloat("1.5"), state |-> PyEnum("TrialState", "COMPLETE"),
       datetime_complete |-> PyDatetime(2020, 1, 2, 3, 4, 15)],
      [value |-> PyFloat("0.0"), state |-> PyEnum("TrialState", "PRUNED"),
       datetime_complete |-> PyDatetime(2020, 1, 2, 3, 4, 15)] }

\* params and distributions of a trial have the same keys.
Suggestions ==
    { [params |-> EmptyDict, distributions |-> EmptyDict],
      [params |-> [k \in {"x"} |-> PyFloat("2.0")],
       distributions |-> [k \in {"x"} |-> PyUniform(-10, 10)]] }

\* user attributes: none, harmless ones, and ones whose keys are a tag the
\* callback writes itself ("state") or derives from a parameter
\* ("x_distribution").
UserAttrs ==
    { EmptyDict,
      [k \in {"note"} |-> PyStr("baseline")],
      [k \in {"state", "x_distribution"} |->
          IF k = "state" THEN PyStr("custom") ELSE PyStr("mine")] }

FrozenTrial(n, o, s, ua) ==
    [number |-> n, value |-> o.value, state |-> o.state,
     datetime_start |-> PyDatetime(2020, 1, 2, 3, 4, 5),
     datetime_complete |-> o.datetime_complete,
     params |-> s.params, distributions |-> s.distributions, user_attrs |-> ua]

Trials(n) == { FrozenTrial(n, o, s, ua) : o \in Outcomes, s \in Suggestions, ua \in UserAttrs }

\* ------------------------------------------------------------------------
\* The pure parts of MLflowCallback
\* ------------------------------------------------------------------------

NoError == "NoError"

NoObject == [t |-> "NoObject"]

\* The object __init__ leaves behind.
MLflowCallback(tracking_uri, experiment) ==
    [t |-> "MLflowCallback", tracking_uri |-> tracking_uri, experiment |-> experiment]

\* How a call MLflowCallback(tracking_uri=..., experiment=..., metric_name=...)
\* ends: binding a keyword the signature does not have raises TypeError before
\* the body runs; the body raises ImportError unless mlflow was imported.
ConstructorRaises(metric_name, is_available) ==
    IF ~IsNone(metric_name) THEN "TypeError"
    ELSE IF ~is_available THEN "ImportError"
    ELSE NoError

\* Mutant of ExperimentName: the configured experiment is ignored.
ExperimentNameOfStudy(self, study) == study.study_name

\* The name passed to mlflow.set_experiment.
ExperimentName(self, study) ==
    IF ~IsNone(self.experiment) THEN self.experiment.v ELSE study.study_name

\* The name under which the metric is logged.
MetricName(self) == "value"

\* Mutant of TrialValue: a missing value is logged as zero.
TrialValueZero(trial) == IF ~IsNone(trial.value) THEN trial.value ELSE PyFloat("0.0")

\* trial.value if trial.value is not None else float("nan")
TrialValue(trial) == IF ~IsNone(trial.value) THEN trial.value ELSE NaN

\* Mutant of DistributionKey: the suffix is forgotten.
DistributionKeyBare(k) == k

\* k + "_distribution"
DistributionKey(k) == k \o "_distribution"

\* {(k + "_distribution"): str(v) for (k, v) in trial.distributions.items()}
Distributions(trial) ==
    [key \in {DistributionKey(k) : k \in DOMAIN trial.distributions} |->
        PyStr(Str(trial.distributions[
            CHOOSE k \in DOMAIN trial.distributions : DistributionKey(k) = key]))]

\* tags["number"] = ... ; ... ; tags["direction"] = ...
ReservedTags(study, trial) ==
    LET t0 == EmptyDict
        t1 == DictSet(t0, "number", PyStr(Str(trial.number)))
        t2 == DictSet(t1, "datetime_start", PyStr(Str(trial.datetime_start)))
        t3 == DictSet(t2, "datetime_complete", PyStr(Str(trial.datetime_complete)))
        t4 == DictSet(t3, "state", PyStr(Str(trial.state)))
        t5 == DictSet(t4, "direction", PyStr(Str(study.direction)))
    IN  t5

\* The dict passed to mlflow.set_tags.
Tags(study, trial) ==
    DictUpdate(DictUpdate(ReservedTags(study, trial), trial.user_attrs), Distributions(trial))

\* The first client call of __call__.
Entry(self) == IF ~IsNone(self.tracking_uri) THEN "set_tracking_uri" ELSE "set_experiment"

\* Mutant of Successor: the tags are sent before the parameters.
SuccessorTagsFirst(op) ==
    CASE op = "set_tracking_uri" -> "set_experiment"
      [] op = "set_experiment" -> "start_run"
      [] op = "start_run" -> "log_metric"
      [] op = "log_metric" -> "set_tags"
      [] op = "set_tags" -> "log_params"
      [] op = "log_params" -> "end_run"
      [] op = "end_run" -> "returned"

\* Mutant of Successor: the run is opened before the experiment is activated.
SuccessorRunFirst(op) ==
    CASE op = "set_tracking_uri" -> "start_run"
      [] op = "start_run" -> "set_experiment"
      [] op = "set_experiment" -> "log_metric"
      [] op = "log_metric" -> "log_params"
      [] op = "log_params" -> "set_tags"
      [] op = "set_tags" -> "end_run"
      [] op = "end_run" -> "returned"

\* The statement that follows a client call that returned.
Successor(op) ==
    CASE op = "set_tracking_uri" -> "set_experiment"
      [] op = "set_experiment" -> "start_run"
      [] op = "start_run" -> "log_metric"
      [] op = "log_metric" -> "log_params"
      [] op = "log_params" -> "set_tags"
      [] op = "set_tags" -> "end_run"
      [] op = "end_run" -> "returned"

\* Mutant of OnRaise: open and close as a manual pair, no close on failure.
OnRaiseNoClose(op) == "returned"

\* Mutant of OnRaise: the exception is swallowed and __call__ carries on.
OnRaiseSwallow(op) == Successor(op)

\* Where control goes when a client call raises: out of the with block through
\* the run's __exit__ when the call is inside it, straight to the caller
\* otherwise.
OnRaise(op) ==
    IF op \in {"log_metric", "log_params", "set_tags"} THEN "end_run" ELSE "returned"

\* ------------------------------------------------------------------------
\* State
\* ------------------------------------------------------------------------

NoFrame == [t |-> "NoFrame"]

NoRun == [t |-> "NoRun"]

VARIABLES
    available,            \* module flag _available, set by the import at load time
    ctor,                 \* the latest constructor call: its metric_name argument and how it ended
    mlflc,                \* the callback object that call produced, or NoObject
    next_number,          \* number of the next trial the study finishes
    pc,                   \* per worker: the client call its invocation is about to issue
    frame,                \* per worker: self, study, trial of its invocation
    calls,                \* per worker: the client calls its invocation has issued
    raised,               \* per worker: the exception propagating out of its invocation
    overlapped,           \* per worker: another invocation was in progress during its own
    mlflow_tracking_uri,  \* the client's process-wide tracking URI
    mlflow_experiment,    \* the client's process-wide active experiment
    active_run            \* per worker: the run its invocation opened

vars == <<available, ctor, mlflc, next_number, pc, frame, calls, raised, overlapped,
          mlflow_tracking_uri, mlflow_experiment, active_run>>

ctor_vars == <<available, ctor, mlflc>>

client_vars == <<mlflow_tracking_uri, mlflow_experiment, active_run>>

Init ==
    /\ available \in BOOLEAN
    /\ ctor = [metric_name |-> PyNone, raised |-> "NotCalled"]
    /\ mlflc = NoObject
    /\ next_number = 0
    /\ pc = [t \in Threads |-> "idle"]
    /\ frame = [t \in Threads |-> NoFrame]
    /\ calls = [t \in Threads |-> <<>>]
    /\ raised = [t \in Threads |-> NoError]
    /\ overlapped = [t \in Threads |-> FALSE]
    /\ mlflow_tracking_uri = PyNone
    /\ mlflow_experiment = "Default"
    /\ active_run = [t \in Threads |-> NoRun]

\* ------------------------------------------------------------------------
\* Operations
\* ------------------------------------------------------------------------

\* mlflc = MLflowCallback(tracking_uri=..., experiment=..., metric_name=...)
Construct(tracking_uri, experiment, metric_name) ==
    LET exc == ConstructorRaises(metric_name, available) IN
    /\ ctor' = [metric_name |-> metric_name, raised |-> exc]
    /\ mlflc' = IF exc = NoError THEN MLflowCallback(tracking_uri, experiment) ELSE NoObject
    /\ UNCHANGED <<available, next_number, pc, frame, calls, raised, overlapped, client_vars>>

InFlight == {t \in Threads : pc[t] # "idle"}

\* The workers inside __call__.
Running == {t \in Threads : pc[t] \notin {"idle", "returned"}}

\* A worker calls self(study, trial) for the trial the study just finished.
Invoke(t, self, study, trial) ==
    /\ pc[t] = "idle"
    /\ self # NoObject
    /\ next_number < NumTrials
    /\ trial.number = PyInt(next_number)
    /\ next_number' = next_number + 1
    /\ frame' = [frame EXCEPT ![t] = [t |-> "Frame", self |-> self, study |-> study,
                                      trial |-> trial]]
    /\ pc' = [pc EXCEPT ![t] = Entry(self)]
    /\ calls' = [calls EXCEPT ![t] = <<>>]
    /\ raised' = [raised EXCEPT ![t] = NoError]
    /\ overlapped' = [u \in Threads |->
                        IF u = t THEN Running # {}
                        ELSE IF u \in Running THEN TRUE ELSE overlapped[u]]
    /\ UNCHANGED <<ctor_vars, client_vars>>

\* The invocation of t issues the client call op(arg); ok: the call returns.
Issue(t, op, arg, ok) ==
    /\ pc[t] = op
    /\ calls' = [calls EXCEPT ![t] = Append(@, [op |-> op, arg |-> arg])]
    /\ pc' = [pc EXCEPT ![t] = IF ok THEN Successor(op) ELSE OnRaise(op)]
    /\ raised' = [raised EXCEPT ![t] = IF ok THEN @ ELSE op]
    /\ UNCHANGED <<ctor_vars, next_number, frame, overlapped>>

\* mlflow.set_tracking_uri(self._tracking_uri)
SetTrackingUri(t, ok) ==
    /\ Issue(t, "set_tracking_uri", frame[t].self.tracking_uri, ok)
    /\ mlflow_tracking_uri' = IF ok THEN frame[t].self.tracking_uri ELSE mlflow_tracking_uri
    /\ UNCHANGED <<mlflow_experiment, active_run>>

\* mlflow.set_experiment(self._experiment) / mlflow.set_experiment(study.study_name)
SetExperiment(t, ok) ==
    LET name == ExperimentName(frame[t].self, frame[t].study) IN
    /\ Issue(t, "set_experiment", name, ok)
    /\ mlflow_experiment' = IF ok THEN name ELSE mlflow_experiment
    /\ UNCHANGED <<mlflow_tracking_uri, active_run>>

\* with mlflow.start_run(run_name=trial.number): the run is created under the
\* client's tracking URI and active experiment of that moment.
StartRun(t, ok) ==
    /\ Issue(t, "start_run", frame[t].trial.number, ok)
    /\ active_run' = IF ok
                     THEN [active_run EXCEPT ![t] =
                              [t |-> "Run", run_name |-> frame[t].trial.number,
                               experiment |-> mlflow_experiment,
                               tracking_uri |-> mlflow_tracking_uri]]
                     ELSE active_run
    /\ UNCHANGED <<mlflow_tracking_uri, mlflow_experiment>>

\* mlflow.log_metric('value', trial_value)
LogMetric(t, ok) ==
    /\ Issue(t, "log_metric", <<MetricName(frame[t].self), TrialValue(frame[t].trial)>>, ok)
    /\ UNCHANGED client_vars

\* mlflow.log_params(trial.params)
LogParams(t, ok) ==
    /\ Issue(t, "log_params", frame[t].trial.params, ok)
    /\ UNCHANGED client_vars

\* mlflow.set_tags(tags)
SetTags(t, ok) ==
    /\ Issue(t, "set_tags", Tags(frame[t].study, frame[t].trial), ok)
    /\ UNCHANGED client_vars

\* Leaving the with block, normally or with an exception in flight: the run's
\* __exit__ ends the run and lets the exception through.
EndRun(t) ==
    /\ Issue(t, "end_run", PyNone, TRUE)
    /\ active_run' = [active_run EXCEPT ![t] = NoRun]
    /\ UNCHANGED <<mlflow_tracking_uri, mlflow_experiment>>

\* __call__ has returned or raised to the optimisation loop, which goes on.
Return(t) ==
    /\ pc[t] = "returned"
    /\ pc' = [pc EXCEPT ![t] = "idle"]
    /\ frame' = [frame EXCEPT ![t] = NoFrame]
    /\ calls' = [calls EXCEPT ![t] = <<>>]
    /\ raised' = [raised EXCEPT ![t] = NoError]
    /\ overlapped' = [overlapped EXCEPT ![t] = FALSE]
    /\ UNCHANGED <<ctor_vars, next_number, client_vars>>

\* The steps of an invocation that has started.
Run(t) ==
    \/ \E ok \in BOOLEAN : SetTrackingUri(t, ok)
    \/ \E ok \in BOOLEAN : SetExperiment(t, ok)
    \/ \E ok \in BOOLEAN : StartRun(t, ok)
    \/ \E ok \in BOOLEAN : LogMetric(t, ok)
    \/ \E ok \in BOOLEAN : LogParams(t, ok)
    \/ \E ok \in BOOLEAN : SetTags(t, ok)
    \/ EndRun(t)
    \/ Return(t)

\* The user's program: it constructs the callback, then runs
\* study.optimize(..., callbacks=[mlflc]) with n_jobs=1, which invokes the
\* callback for one trial at a time.
Next ==
    \/ \E u \in TrackingUris, e \in Experiments, m \in MetricNames :
          ctor.raised = "NotCalled" /\ Construct(u, e, m)
    \/ \E t \in Threads, s \in Studies, tr \in Trials(PyInt(next_number)) :
          InFlight = {} /\ Invoke(t, mlflc, s, tr)
    \/ \E t \in Threads : Run(t)

Spec == Init /\ [][Next]_vars

\* Two callbacks with different endpoints and experiments, both constructed,
\* invoked from two workers at once.
ConcCallbacks ==
    { MLflowCallback(PyStr("file:/a"), PyStr("X")), MLflowCallback(PyStr("file:/b"), PyNone) }

ConcStudies == { s \in Studies : s.study_name = "my_study" }

ConcTrials(n) ==
    { tr \in Trials(n) : IsNone(tr.value) /\ tr.user_attrs = EmptyDict
                         /\ tr.params = EmptyDict }

InitConc ==
    /\ available = TRUE
    /\ ctor = [metric_name |-> PyNone, raised |-> NoError]
    /\ mlflc \in ConcCallbacks
    /\ next_number = 0
    /\ pc = [t \in Threads |-> "idle"]
    /\ frame = [t \in Threads |-> NoFrame]
    /\ calls = [t \in Threads |-> <<>>]
    /\ raised = [t \in Threads |-> NoError]
    /\ overlapped = [t \in Threads |-> FALSE]
    /\ mlflow_tracking_uri = PyNone
    /\ mlflow_experiment = "Default"
    /\ active_run = [t \in Threads |-> NoRun]

NextConc ==
    \/ \E t \in Threads, self \in ConcCallbacks, s \in ConcStudies,
          tr \in ConcTrials(PyInt(next_number)) : Invoke(t, self, s, tr)
    \/ \E t \in Threads : Run(t)

SpecConc == InitConc /\ [][NextConc]_vars

\* ------------------------------------------------------------------------
\* Properties
\* ------------------------------------------------------------------------

\* The names of the client calls worker t's invocation has issued, in order.
Ops(t) == [i \in 1..Len(calls[t]) |-> calls[t][i].op]

\* The positions at which worker t's invocation issued op.
Positions(t, op) == {i \in 1..Len(calls[t]) : calls[t][i].op = op}

Finished(t) == pc[t] = "returned"

Started(t) == frame[t] # NoFrame

IsPrefix(a, b) == Len(a) <= Len(b) /\ \A i \in 1..Len(a) : a[i] = b[i]

LoggingOps == {"log_metric", "log_params", "set_tags"}

ReservedNames == {"number", "datetime_start", "datetime_complete", "state", "direction"}

\* The calls of a full invocation of a callback with / without a tracking URI.
FullSequence(self) ==
    (IF self.tracking_uri = PyNone THEN <<>> ELSE <<"set_tracking_uri">>)
        \o <<"set_experiment", "start_run", "log_metric", "log_params", "set_tags", "end_run">>

\* C1: in an invocation in which no client call fails, the calls issued are
\* set_tracking_uri (once, exactly when a tracking URI was configured),
\* set_experiment, start_run, log_metric, log_params, set_tags, end_run, each
\* once and in that order; and in any invocation a logging call is issued
\* only between the opening and the closing of the run.
C1_CallOrder ==
    \A t \in Threads :
        Started(t) =>
            /\ raised[t] = NoError => IsPrefix(Ops(t), FullSequence(frame[t].self))
            /\ (Finished(t) /\ raised[t] = NoError) => Ops(t) = FullSequence(frame[t].self)
            /\ \A i \in 1..Len(calls[t]) :
                  calls[t][i].op \in LoggingOps =>
                      /\ \E j \in 1..(i - 1) : calls[t][j].op = "start_run"
                      /\ \A j \in 1..(i - 1) : calls[t][j].op # "end_run"
                      /\ active_run[t] # NoRun \/ "end_run" \in {Ops(t)[j] : j \in (i + 1)..Len(calls[t])}

C1_Witness ==
    \E t \in Threads :
        /\ Finished(t) /\ raised[t] = NoError
        /\ frame[t].self.tracking_uri = PyStr("file:/a")
        /\ Ops(t) = <<"set_tracking_uri", "set_experiment", "start_run", "log_metric",
                      "log_params", "set_tags", "end_run">>

\* C2: a run that an invocation opened is closed before the invocation ends,
\* whether log_metric, log_params or set_tags raised or none did: end_run is
\* the last call of such an invocation, issued once, and no worker outside
\* __call__ has a run open.
C2_RunClosed ==
    \A t \in Threads :
        /\ pc[t] \in {"idle", "returned"} => active_run[t] = NoRun
        /\ (Finished(t) /\ Positions(t, "start_run") # {} /\ raised[t] # "start_run") =>
              /\ Positions(t, "end_run") = {Len(calls[t])}
              /\ \A i \in Positions(t, "start_run") : i < Len(calls[t])

C2_Witness ==
    \E t \in Threads :
        /\ Finished(t) /\ raised[t] = "log_params"
        /\ Ops(t)[Len(calls[t]) - 2] = "log_metric"
        /\ Ops(t)[Len(calls[t]) - 1] = "log_params"
        /\ Ops(t)[Len(calls[t])] = "end_run"
        /\ active_run[t] = NoRun

\* C3: the constructor accepts an optional metric name, and every invocation
\* logs exactly one metric, named by the configured metric name, or "value"
\* when none was configured.
C3_MetricName ==
    /\ (available /\ ctor.raised # "NotCalled") => ctor.raised = NoError
    /\ \A t \in Threads :
          /\ \A i \in Positions(t, "log_metric") :
                calls[t][i].arg[1] =
                    (IF ctor.metric_name = PyNone THEN "value" ELSE ctor.metric_name.v)
          /\ Cardinality(Positions(t, "log_metric")) <= 1

\* C4: the value of the logged metric is the trial's value when that is not
\* None and NaN when it is None; the metric is logged at most once, and it is
\* missing from a finished invocation only when a call before it raised,
\* whatever the trial's value is.
C4_MetricValue ==
    \A t \in Threads :
        Started(t) =>
            /\ \A i \in Positions(t, "log_metric") :
                  /\ frame[t].trial.value # PyNone => calls[t][i].arg[2] = frame[t].trial.value
                  /\ frame[t].trial.value = PyNone => calls[t][i].arg[2] = PyFloat("nan")
            /\ Cardinality(Positions(t, "log_metric")) <= 1
            /\ (Finished(t) /\ Positions(t, "log_metric") = {}) =>
                  raised[t] \in {"set_tracking_uri", "set_experiment", "start_run"}

C4_Witness ==
    \E t \in Threads :
        /\ Finished(t)
        /\ frame[t].trial.value = PyNone
        /\ \E i \in 1..Len(calls[t]) :
              calls[t][i] = [op |-> "log_metric", arg |-> <<"value", PyFloat("nan")>>]

\* The experiment name the invocation of worker t is configured with.
ConfiguredExperiment(t) ==
    IF frame[t].self.experiment = PyNone
    THEN frame[t].study.study_name
    ELSE frame[t].self.experiment.v

\* C5, as claimed: the name passed to set_experiment is the configured
\* experiment name when there is one and the study's name otherwise, and
\* every invocation issues exactly one set_experiment call.
C5_ExperimentAlwaysActivated ==
    \A t \in Threads :
        Started(t) =>
            /\ \A i \in Positions(t, "set_experiment") :
                  calls[t][i].arg = ConfiguredExperiment(t)
            /\ Finished(t) => Cardinality(Positions(t, "set_experiment")) = 1

\* C5, amended: the name passed to set_experiment is the configured
\* experiment name when there is one and the study's name otherwise; an
\* invocation issues set_experiment at most once, and exactly once unless
\* its set_tracking_uri call raised, in which case it issues none.
C5_ExperimentName ==
    \A t \in Threads :
        Started(t) =>
            /\ \A i \in Positions(t, "set_experiment") :
                  calls[t][i].arg = ConfiguredExperiment(t)
            /\ Cardinality(Positions(t, "set_experiment")) <= 1
            /\ (Finished(t) /\ raised[t] # "set_tracking_uri") =>
                  Cardinality(Positions(t, "set_experiment")) = 1
            /\ (Finished(t) /\ raised[t] = "set_tracking_uri") =>
                  Positions(t, "set_experiment") = {}

C5_Witness ==
    \E t \in Threads :
        /\ Finished(t)
        /\ frame[t].self.experiment = PyStr("X")
        /\ frame[t].study.study_name = "other_study"
        /\ \E i \in 1..Len(calls[t]) : calls[t][i] = [op |-> "set_experiment", arg |-> "X"]

\* The textual rendering of the trial / study field behind a reserved tag.
FieldText(t, name) ==
    CASE name = "number" -> PyStr(Str(frame[t].trial.number))
      [] name = "datetime_start" -> PyStr(Str(frame[t].trial.datetime_start))
      [] name = "datetime_complete" -> PyStr(Str(frame[t].trial.datetime_complete))
      [] name = "state" -> PyStr(Str(frame[t].trial.state))
      [] name = "direction" -> PyStr(Str(frame[t].study.direction))

\* The keys <param>_distribution of worker t's trial.
DistributionKeys(t) == {p \o "_distribution" : p \in DOMAIN frame[t].trial.distributions}

\* C6, as claimed: the tags of the set_tags call hold every reserved name,
\* each with the textual rendering of its trial / study field, one
\* <param>_distribution key per distribution and every user-attribute key,
\* also when a user-attribute key is a reserved name.
C6_ReservedTagsAreFields ==
    \A t \in Threads :
        \A i \in Positions(t, "set_tags") :
            LET tags == calls[t][i].arg IN
            /\ ReservedNames \subseteq DOMAIN tags
            /\ \A r \in ReservedNames : tags[r] = FieldText(t, r)
            /\ DistributionKeys(t) \subseteq DOMAIN tags
            /\ DOMAIN frame[t].trial.user_attrs \subseteq DOMAIN tags

\* C6, amended: the tags of the single set_tags call hold every reserved
\* name, one <param>_distribution key per distribution and every
\* user-attribute key; a reserved name carries the textual rendering of its
\* trial / study field unless a user-attribute key equals it, and then it
\* carries that user attribute's value.
C6_TagKeys ==
    \A t \in Threads :
        /\ Cardinality(Positions(t, "set_tags")) <= 1
        /\ \A i \in Positions(t, "set_tags") :
              LET tags == calls[t][i].arg
                  ua == frame[t].trial.user_attrs
              IN
              /\ ReservedNames \subseteq DOMAIN tags
              /\ \A r \in ReservedNames :
                    tags[r] = IF r \in DOMAIN ua THEN ua[r] ELSE FieldText(t, r)
              /\ DistributionKeys(t) \subseteq DOMAIN tags
              /\ DOMAIN ua \subseteq DOMAIN tags
              /\ Cardinality(DistributionKeys(t)) =
                    Cardinality(DOMAIN frame[t].trial.distributions)

C6_Witness ==
    \E t \in Threads :
        \E i \in Positions(t, "set_tags") :
            LET tags == calls[t][i].arg IN
            /\ DOMAIN frame[t].trial.user_attrs = {"state", "x_distribution"}
            /\ frame[t].trial.state = PyEnum("TrialState", "FAIL")
            /\ frame[t].trial.number = PyInt(1)
            /\ DOMAIN tags = ReservedNames \cup {"x_distribution"}
            /\ tags["state"] = PyStr("custom")
            /\ tags["number"] = PyStr("1")
            /\ tags["datetime_start"] = PyStr("2020-01-02 03:04:05")
            /\ tags["datetime_complete"] = PyStr("None")
            /\ tags["direction"] = PyStr("StudyDirection.MINIMIZE")

\* C7: when mlflow is unavailable the constructor raises the availability
\* error and leaves no object; when it is available the constructor
\* succeeds; constructing issues no client call, and no invocation raises
\* the availability error.
C7_EagerAvailabilityCheck ==
    /\ ctor.raised # "NotCalled" =>
          /\ ~available => (ctor.raised = "ImportError" /\ mlflc = NoObject)
          /\ available => (ctor.raised = NoError /\ mlflc # NoObject)
    /\ mlflc = NoObject => \A t \in Threads : calls[t] = <<>>
    /\ \A t \in Threads : raised[t] # "ImportError"

\* C8: when a client call of an invocation raises, that exception is the one
\* reaching the caller, and after the failing call the invocation issues
\* nothing but end_run, and that only if it had opened a run; a failure of
\* set_tracking_uri or set_experiment leaves no run opened and nothing logged.
C8_FailurePropagates ==
    \A t \in Threads :
        raised[t] # NoError =>
            /\ raised[t] \in {"set_tracking_uri", "set_experiment", "start_run"} \cup LoggingOps
            /\ pc[t] \in {"end_run", "returned"}
            /\ \E i \in Positions(t, raised[t]) :
                  LET rest == SubSeq(Ops(t), i + 1, Len(calls[t])) IN
                  /\ IsPrefix(SubSeq(Ops(t), 1, i), FullSequence(frame[t].self))
                  /\ raised[t] \in LoggingOps =>
                        rest = IF Finished(t) THEN <<"end_run">> ELSE <<>>
                  /\ raised[t] \notin LoggingOps => (rest = <<>> /\ Finished(t))
            /\ raised[t] \in {"set_tracking_uri", "set_experiment"} =>
                  /\ Positions(t, "start_run") = {}
                  /\ \A op \in LoggingOps : Positions(t, op) = {}
                  /\ active_run[t] = NoRun

C8_Witness ==
    \E t \in Threads :
        /\ Finished(t) /\ raised[t] = "set_experiment"
        /\ Ops(t) = <<"set_tracking_uri", "set_experiment">>

\* C9: when no other invocation runs during an invocation, the run it opens
\* is created under the experiment it activated itself (and under the
\* tracking URI it set, if it is configured with one).  Nothing orders the
\* calls of two concurrent invocations: C9_Witness is a reachable state in
\* which a run is open under the experiment another invocation activated.
C9_SequentialRunUnderOwnExperiment ==
    \A t \in Threads :
        (active_run[t] # NoRun /\ ~overlapped[t]) =>
            /\ \E i \in Positions(t, "set_experiment") :
                  /\ i < Len(calls[t])
                  /\ calls[t][i].arg = active_run[t].experiment
            /\ active_run[t].experiment = ConfiguredExperiment(t)
            /\ frame[t].self.tracking_uri # PyNone =>
                  active_run[t].tracking_uri = frame[t].self.tracking_uri

C9_Witness ==
    \E t \in Threads, u \in Threads :
        /\ t # u
        /\ active_run[t] # NoRun
        /\ overlapped[t]
        /\ Positions(t, "set_experiment") # {}
        /\ active_run[t].experiment # ConfiguredExperiment(t)
        /\ Started(u)
        /\ active_run[t].experiment = ConfiguredExperiment(u)
        /\ \E i \in Positions(u, "set_experiment") : calls[u][i].arg = active_run[t].experiment

\* C10: the tags are merged last write wins, reserved names first, then the
\* user attributes, then the <param>_distribution keys: a key of the
\* distributions carries the distribution's textual rendering, any other
\* user-attribute key carries the user attribute's value, also when it is a
\* reserved name, and the remaining reserved names carry their fields; a
\* collision stops nothing: set_tags is issued whenever log_params returned.
C10_LastWriteWins ==
    \A t \in Threads :
        /\ \A i \in Positions(t, "set_tags") :
              LET tags == calls[t][i].arg
                  ua == frame[t].trial.user_attrs
                  ds == frame[t].trial.distributions
              IN
              /\ DOMAIN tags = ReservedNames \cup DOMAIN ua \cup DistributionKeys(t)
              /\ \A p \in DOMAIN ds : tags[p \o "_distribution"] = PyStr(Str(ds[p]))
              /\ \A k \in DOMAIN ua \ DistributionKeys(t) : tags[k] = ua[k]
              /\ \A r \in ReservedNames \ (DOMAIN ua \cup DistributionKeys(t)) :
                    tags[r] = FieldText(t, r)
        /\ (Finished(t) /\ Positions(t, "log_params") # {} /\ raised[t] # "log_params") =>
              Cardinality(Positions(t, "set_tags")) = 1

C10_Witness ==
    \E t \in Threads :
        \E i \in Positions(t, "set_tags") :
            LET tags == calls[t][i].arg IN
            /\ Finished(t) /\ raised[t] = NoError
            /\ DOMAIN frame[t].trial.user_attrs = {"state", "x_distribution"}
            /\ frame[t].trial.user_attrs["state"] = PyStr("custom")
            /\ frame[t].trial.user_attrs["x_distribution"] = PyStr("mine")
            /\ "x" \in DOMAIN frame[t].trial.distributions
            /\ tags["state"] = PyStr("custom")
            /\ tags["x_distribution"] = PyStr("UniformDistribution(low=-10, high=10)")
            /\ tags["number"] = PyStr("0")

====
